---- MODULE Spec2Model ----
(***************************************************************************)
(* Model of the LLM assistant toolkit.                                     *)
(*                                                                         *)
(*   src/app.py   the FastAPI server: the /chat handler keeps one message  *)
(*                history per session in the global dict chat_sessions;    *)
(*                the /clean handler keeps nothing.                        *)
(*   src/main.py  the command-line client: the interactive chat loop       *)
(*                (chat_with_llm), the document-clean loop                 *)
(*                (clean_document), its gate (__does_need_chunking) and    *)
(*                its token-bounded chunker (__chunk_text).                *)
(*                                                                         *)
(* Strings that are only compared are TLA+ strings; texts that are split   *)
(* and joined are sequences of one-character strings.                      *)
(***************************************************************************)
EXTENDS Integers, Sequences, FiniteSets, TLC

VARIABLES
    chat_sessions,  \* app.py:50   dict: session id -> list of {role, content}
    requests,       \* every invocation of the /chat handler so far, in arrival order
    loop_pc,        \* main.py:46  where chat_with_llm stands
    loop_req,       \* main.py:53  the /chat request the chat loop is waiting on
    console,        \* main.py:48  what the chat loop has read from and printed to the terminal
    text,           \* main.py:122 argument of __chunk_text
    max_tokens,     \* main.py:122 argument of __chunk_text
    tokenizer,      \* main.py:35  the token counting capability behind __count_tokens
    chunks,         \* main.py:150 value returned by __chunk_text
    chunk_pc,       \* whether __chunk_text has been called and has returned
    context_window, \* main.py:173 argument of __does_need_chunking
    needs,          \* main.py:188 value returned by __does_need_chunking
    gate_pc,        \* whether __does_need_chunking has been called and has returned
    document,       \* main.py:79  the content of the file in DEFAULT_TEXTS_DIR the user names
    doc_pc,         \* main.py:70  where clean_document stands
    clean_calls,    \* main.py:164 the /clean requests sent for the document at hand, in order
    cleaned,        \* main.py:95  the replies collected for the document at hand
    doc_console     \* main.py:102 what clean_document has printed since the last prompt

chatVars  == <<chat_sessions, requests>>
loopVars  == <<loop_pc, loop_req, console>>
gateVars  == <<context_window, needs, gate_pc>>
cleanVars == <<document, doc_pc, clean_calls, cleaned, doc_console>>
chunkVars == <<text, max_tokens, tokenizer, chunks, chunk_pc, gateVars, cleanVars>>
vars      == <<chat_sessions, requests, loop_pc, loop_req, console,
               text, max_tokens, tokenizer, chunks, chunk_pc,
               context_window, needs, gate_pc,
               document, doc_pc, clean_calls, cleaned, doc_console>>

(***************************************************************************)
(* Bounds of the model.                                                    *)
(***************************************************************************)
\* number of identifiers uuid4 can hand out before the model stops creating sessions
MaxSessions == 2
\* number of /chat requests the server receives in one behaviour
MaxRequests == 3
\* number of lines the user types in one run of the chat loop
MaxTyped == 3
\* length of the texts given to the chunker, in characters
MaxLen == 5
\* the small token budgets given to the chunker are 0..MaxBudget
MaxBudget == 3
\* tokens per letter under the "wide" token counter
WideTokens == 2400
\* the small context windows given to the gate are 0..MaxWindow
MaxWindow == 10

(***************************************************************************)
(* Values.                                                                 *)
(***************************************************************************)
\* Python's None: the value of dict.get for an absent key, and of JSON null.
None == "<None>"

\* app.py:40 the fixed system directive (its text is abbreviated here)
SYSTEM_PROMPT_CHAT == "You are a skeptical and discerning buyer. ..."

\* the identifiers str(uuid.uuid4()) can return
UUIDs == {"uuid-" \o ToString(i) : i \in 1..MaxSessions}

\* the session_id values a client sends: absent/null, the empty string, or a
\* string (a uuid string is an unknown id as long as the server has not issued it)
ClientSessionIds == {None, ""} \cup UUIDs

\* the message texts a client sends
Messages == {"hello", "again"}

\* the reply texts the backend returns in message.content
Replies == {"reply"}

\* the ways the backend call fails: app.py:131-132 raises (connection refused,
\* timeout, non-2xx status) or app.py:135 raises KeyError (reply without message)
Failures == {"transport", "no_message_field"}

\* Python truthiness of a session_id value (None and '' are falsy)
Truthy(v) == v # None /\ v # ""

Turn(role, content) == [role |-> role, content |-> content]

(***************************************************************************)
(* The /chat handler, src/app.py:92-138.                                   *)
(*                                                                         *)
(* The handler is a coroutine; it is suspended only at the backend call of *)
(* lines 130-133, so lines 109-131 run as one step and lines 132-138 as    *)
(* another, and several requests can be suspended at the same time.        *)
(***************************************************************************)

\* a lookup that never finds the session
NeedsNewSessionAlways(session_id, sessions) == TRUE

\* app.py:117  if not session_id or session_id not in chat_sessions
NeedsNewSession(session_id, sessions) ==
    ~Truthy(session_id) \/ session_id \notin DOMAIN sessions

\* a new session created without its directive
NewHistoryEmpty == <<>>

\* app.py:120-121 the history of a new session
NewHistory == <<Turn("system", SYSTEM_PROMPT_CHAT)>>

\* a user turn stored with the assistant role
AppendUserWrongRole(history, user_message) ==
    Append(history, Turn("assistant", user_message))

\* app.py:123 append the user turn
AppendUser(history, user_message) ==
    Append(history, Turn("user", user_message))

\* a reply that is returned but not stored
AppendAssistantDropped(history, assistant_message) == history

\* app.py:136 append the assistant turn
AppendAssistant(history, assistant_message) ==
    Append(history, Turn("assistant", assistant_message))

\* a failure handler that takes the last turn back
OnBackendFailureRollback(history) == SubSeq(history, 1, Len(history) - 1)

\* app.py:130-135 an exception of the backend call leaves the handler: nothing
\* catches it, nothing is undone
OnBackendFailure(history) == history

OllamaMessagesLastOnly(history) == <<history[Len(history)]>>

\* app.py:124-128 ollama_config['messages'] is the stored list itself, encoded
\* when the request is built, before the handler is suspended
OllamaMessages(history) == history

\* uuid4 handing out an identifier whether or not it is in use
FreshIdsAny(sessions) == UUIDs

\* app.py:118 the identifiers uuid4 can return: any that is not yet a key
FreshIds(sessions) == UUIDs \ DOMAIN sessions

\* requests[s] lists the handler invocations that ran on session s, in arrival
\* order; each keeps the handler's locals (payload, session_id, the messages
\* sent to the backend), whether another request of the session was waiting
\* for the backend when it arrived (overlapped) and, once finished, its outcome
RequestsOf(s) == IF s \in DOMAIN requests THEN requests[s] ELSE <<>>

RECURSIVE SumLen(_)
SumLen(S) ==
    IF S = {} THEN 0
    ELSE LET s == CHOOSE x \in S : TRUE IN Len(requests[s]) + SumLen(S \ {s})

\* the number of requests received so far
NumRequests == SumLen(DOMAIN requests)

\* the sessions with a request suspended at the backend call
Busy == {s \in DOMAIN requests :
            \E i \in 1..Len(requests[s]) : requests[s][i].status = "awaiting"}

\* app.py:109-131 the handler from the request to the backend call
ChatBegin(payload) ==
    /\ NumRequests < MaxRequests
    /\ LET new == NeedsNewSession(payload.session_id, chat_sessions) IN
       \E session_id \in (IF new THEN FreshIds(chat_sessions) ELSE {payload.session_id}) :
          LET before  == IF new THEN NewHistory ELSE chat_sessions[session_id]
              history == AppendUser(before, payload.message)
              keys    == DOMAIN chat_sessions \cup {session_id}
              frame   == [payload    |-> payload,
                          session_id |-> session_id,
                          messages   |-> OllamaMessages(history),
                          overlapped |-> session_id \in Busy,
                          status     |-> "awaiting",
                          reply      |-> None,
                          returned   |-> None]
          IN /\ chat_sessions' =
                    [s \in keys |-> IF s = session_id THEN history ELSE chat_sessions[s]]
             /\ requests' =
                    [s \in keys |-> IF s = session_id
                                    THEN Append(RequestsOf(s), frame)
                                    ELSE requests[s]]

\* app.py:132-138 the backend answered: store the reply and respond
ChatReply(s, i, assistant_message) ==
    /\ requests[s][i].status = "awaiting"
    /\ LET session_id == requests[s][i].session_id IN
       /\ chat_sessions' = [chat_sessions EXCEPT
              ![session_id] = AppendAssistant(@, assistant_message)]
       /\ requests' = [requests EXCEPT
              ![s][i].status = "ok",
              ![s][i].reply = assistant_message,
              ![s][i].returned = session_id]

\* app.py:130-135 the backend call raised: the handler ends with the exception
\* and the server answers 500
ChatFail(s, i, failure) ==
    /\ requests[s][i].status = "awaiting"
    /\ LET session_id == requests[s][i].session_id IN
       /\ chat_sessions' = [chat_sessions EXCEPT
              ![session_id] = OnBackendFailure(@)]
       /\ requests' = [requests EXCEPT ![s][i].status = "error"]

(***************************************************************************)
(* The server under arbitrary clients.                                     *)
(***************************************************************************)
GateIdle ==
    /\ context_window = 0
    /\ needs = FALSE
    /\ gate_pc = "idle"

CleanIdle ==
    /\ document = <<>>
    /\ doc_pc = "idle"
    /\ clean_calls = <<>>
    /\ cleaned = <<>>
    /\ doc_console = <<>>

ChunkIdle ==
    /\ text = <<>>
    /\ max_tokens = 0
    /\ tokenizer = "words"
    /\ chunks = <<>>
    /\ chunk_pc = "idle"
    /\ GateIdle
    /\ CleanIdle

LoopIdle ==
    /\ loop_pc = "idle"
    /\ loop_req = <<>>
    /\ console = <<>>

Init ==
    /\ chat_sessions = <<>>
    /\ requests = <<>>
    /\ LoopIdle
    /\ ChunkIdle

Request ==
    /\ \E sid \in ClientSessionIds, msg \in Messages :
          ChatBegin([session_id |-> sid, message |-> msg])
    /\ UNCHANGED <<loopVars, chunkVars>>

Reply ==
    /\ \E s \in DOMAIN requests : \E i \in 1..Len(requests[s]), r \in Replies :
          ChatReply(s, i, r)
    /\ UNCHANGED <<loopVars, chunkVars>>

Fail ==
    /\ \E s \in DOMAIN requests : \E i \in 1..Len(requests[s]), f \in Failures :
          ChatFail(s, i, f)
    /\ UNCHANGED <<loopVars, chunkVars>>

Next == Request \/ Reply \/ Fail

Spec == Init /\ [][Next]_vars

(***************************************************************************)
(* The interactive chat loop, src/main.py:38-59, talking to the server.    *)
(*                                                                         *)
(* loop_pc: "input" at the prompt of line 48, "waiting" inside httpx.post  *)
(* of line 53, "returned" after the break of line 51, "crashed" when an    *)
(* exception other than ValueError left the loop.                          *)
(***************************************************************************)
\* main.py:25
EXIT_WORD == "bye"

\* the lines a user types at the prompt
TypedLines == Messages \cup {"bye", "Bye"}

\* str.lower() on the typed lines
Lower(line) == IF line = "Bye" THEN "bye" ELSE line

\* main.py:54 the body the loop posts: the message and nothing else, so the
\* handler's client_payload.get('session_id') is None
LoopPayload(user_input) == [session_id |-> None, message |-> user_input]

\* the number of lines typed so far
Typed == Cardinality({i \in 1..Len(console) : console[i].who = "You"})

LoopInit ==
    /\ chat_sessions = <<>>
    /\ requests = <<>>
    /\ loop_pc = "input"
    /\ loop_req = <<>>
    /\ console = <<>>
    /\ ChunkIdle

\* main.py:48-51 the user types the exit word
LoopExit ==
    /\ loop_pc = "input"
    /\ Typed < MaxTyped
    /\ \E user_input \in TypedLines :
          /\ Lower(user_input) = EXIT_WORD
          /\ console' = Append(console, [who |-> "You", text |-> user_input])
    /\ loop_pc' = "returned"
    /\ UNCHANGED <<chatVars, loop_req, chunkVars>>

\* main.py:48-54 the user types a message and the request reaches the server
LoopSubmit ==
    /\ loop_pc = "input"
    /\ Typed < MaxTyped
    /\ \E user_input \in TypedLines :
          /\ Lower(user_input) # EXIT_WORD
          /\ console' = Append(console, [who |-> "You", text |-> user_input])
          /\ ChatBegin(LoopPayload(user_input))
    /\ \E s \in DOMAIN requests' :
          /\ Len(requests'[s]) = Len(RequestsOf(s)) + 1
          /\ loop_req' = <<s, Len(requests'[s])>>
    /\ loop_pc' = "waiting"
    /\ UNCHANGED chunkVars

\* main.py:53 httpx.post cannot reach the server: httpx.ConnectError is no
\* ValueError and leaves the loop
LoopSendFailed ==
    /\ loop_pc = "input"
    /\ Typed < MaxTyped
    /\ \E user_input \in TypedLines :
          /\ Lower(user_input) # EXIT_WORD
          /\ console' = Append(console, [who |-> "You", text |-> user_input])
    /\ loop_pc' = "crashed"
    /\ UNCHANGED <<chatVars, loop_req, chunkVars>>

\* main.py:53 DEFAULT_TIMEOUT passes before the server answers: httpx.ReadTimeout
\* leaves the loop while the handler is still waiting for the backend
LoopTimeout ==
    /\ loop_pc = "waiting"
    /\ requests[loop_req[1]][loop_req[2]].status = "awaiting"
    /\ loop_pc' = "crashed"
    /\ UNCHANGED <<chatVars, loop_req, console, chunkVars>>

\* main.py:56 the server answered 200: print the reply (its session_id is not read)
LoopPrintReply ==
    /\ loop_pc = "waiting"
    /\ requests[loop_req[1]][loop_req[2]].status = "ok"
    /\ console' = Append(console,
          [who |-> "LLM", text |-> requests[loop_req[1]][loop_req[2]].reply])
    /\ loop_pc' = "input"
    /\ UNCHANGED <<chatVars, loop_req, chunkVars>>

\* main.py:56-59 the server answered 500 with a body that is no JSON:
\* llm_response.json() raises a ValueError and the loop prints its message
LoopInvalid ==
    /\ loop_pc = "waiting"
    /\ requests[loop_req[1]][loop_req[2]].status = "error"
    /\ console' = Append(console,
          [who |-> "print", text |-> "Invalid input, please try again."])
    /\ loop_pc' = "input"
    /\ UNCHANGED <<chatVars, loop_req, chunkVars>>

LoopNext ==
    \/ LoopExit
    \/ LoopSubmit
    \/ LoopSendFailed
    \/ LoopTimeout
    \/ LoopPrintReply
    \/ LoopInvalid
    \/ Reply
    \/ Fail

SpecLoop == LoopInit /\ [][LoopNext]_vars

(***************************************************************************)
(* The chunker, src/main.py:108-150.                                       *)
(*                                                                         *)
(* A text is a sequence of characters; a word is a non-empty sequence of   *)
(* letters; the chunks are texts.                                          *)
(***************************************************************************)
\* main.py:32-34
max_context_tokens == 8192
expected_output_tokens == 1000
max_input_tokens == max_context_tokens - expected_output_tokens

Letters == {"a", "b"}

\* the characters str.split() splits on
Whitespace == {" ", "\n"}

Alphabet == Letters \cup Whitespace

\* the text of the scenario "a b c d e"
ScenarioText == <<"a", " ", "b", " ", "c", " ", "d", " ", "e">>

\* the texts given to the chunker
Texts == UNION {[1..n -> Alphabet] : n \in 0..MaxLen} \cup {ScenarioText}

\* the budgets given to the chunker: small ones and the one clean_document uses
Budgets == 0..MaxBudget \cup {max_input_tokens}

\* the token counting capabilities: the number of words; the number of
\* characters; a begin-of-sequence token plus one token per letter (the loaded
\* tokenizer prepends such a token to every text, the empty one included); and a
\* begin-of-sequence token plus WideTokens tokens per letter
Tokenizers == {"words", "chars", "bos", "wide"}

\* main.py:134 str.split(): the maximal runs of non-whitespace characters
RECURSIVE SplitFrom(_, _, _, _)
SplitFrom(t, i, word, words) ==
    IF i > Len(t)
    THEN IF word = <<>> THEN words ELSE Append(words, word)
    ELSE IF t[i] \in Whitespace
         THEN SplitFrom(t, i + 1, <<>>, IF word = <<>> THEN words ELSE Append(words, word))
         ELSE SplitFrom(t, i + 1, Append(word, t[i]), words)

Split(t) == SplitFrom(t, 1, <<>>, <<>>)

RECURSIVE JoinNoSpace(_)
JoinNoSpace(parts) ==
    IF parts = <<>> THEN <<>>
    ELSE JoinNoSpace(SubSeq(parts, 1, Len(parts) - 1)) \o parts[Len(parts)]

\* main.py:140 ' '.join(parts)
RECURSIVE Join(_)
Join(parts) ==
    IF parts = <<>> THEN <<>>
    ELSE IF Len(parts) = 1 THEN parts[1]
    ELSE Join(SubSeq(parts, 1, Len(parts) - 1)) \o <<" ">> \o parts[Len(parts)]

NumLetters(t) == Cardinality({i \in 1..Len(t) : t[i] \notin Whitespace})

\* main.py:108-119 __count_tokens under the capability tok
count_tokens(tok, t) ==
    CASE tok = "words" -> Len(Split(t))
      [] tok = "chars" -> Len(t)
      [] tok = "bos"   -> 1 + NumLetters(t)
      [] tok = "wide"  -> 1 + WideTokens * NumLetters(t)

\* a comparison that seals one word early
ExceedsOrEqual(token_len, limit) == token_len >= limit

\* main.py:142 if token_len > max_tokens
Exceeds(token_len, limit) == token_len > limit

\* main.py:138-150 the loop over the words, from word i on, and the final seal
RECURSIVE ChunkLoop(_, _, _, _, _, _)
ChunkLoop(words, i, done, current_chunk, limit, tok) ==
    IF i > Len(words)
    THEN IF current_chunk # <<>> THEN Append(done, Join(current_chunk)) ELSE done
    ELSE LET word == words[i]
             candidate == Append(current_chunk, word)
             token_len == count_tokens(tok, Join(candidate))
         IN IF Exceeds(token_len, limit)
            THEN ChunkLoop(words, i + 1, Append(done, Join(current_chunk)),
                           <<word>>, limit, tok)
            ELSE ChunkLoop(words, i + 1, done, candidate, limit, tok)

\* main.py:122-150 __chunk_text
chunk_text(t, limit, tok) == ChunkLoop(Split(t), 1, <<>>, <<>>, limit, tok)

ChunkInit ==
    /\ chat_sessions = <<>>
    /\ requests = <<>>
    /\ LoopIdle
    /\ text \in Texts
    /\ max_tokens \in Budgets
    /\ tokenizer \in Tokenizers
    /\ chunks = <<>>
    /\ chunk_pc = "call"
    /\ GateIdle
    /\ CleanIdle

\* main.py:94 a call of __chunk_text
CallChunk ==
    /\ chunk_pc = "call"
    /\ chunks' = chunk_text(text, max_tokens, tokenizer)
    /\ chunk_pc' = "done"
    /\ UNCHANGED <<chatVars, loopVars, text, max_tokens, tokenizer, gateVars, cleanVars>>

ChunkNext == CallChunk

SpecChunk == ChunkInit /\ [][ChunkNext]_vars

(***************************************************************************)
(* The chunking gate, src/main.py:173-191.                                 *)
(***************************************************************************)
\* main.py:30
MISTRAL_CONTEXT_WINDOW == 8192

\* the context windows given to the gate: the small ones and the program's
Windows == 0..MaxWindow \cup {MISTRAL_CONTEXT_WINDOW}

\* main.py:186 int(0.8 * token_count): the double nearest to 0.8 lies above
\* 4/5, so the product never falls below an integer 4n/5 and truncation gives
\* the integer quotient of 8n by 10
expected_output(token_count) == (8 * token_count) \div 10

GateExceedsOrEqual(total, window) == total >= window

\* main.py:188 the comparison of the gate
GateExceeds(total, window) == total > window

\* main.py:185-191 __does_need_chunking
does_need_chunking(t, window, tok) ==
    LET token_count == count_tokens(tok, t)
    IN GateExceeds(token_count + expected_output(token_count), window)

GateInit ==
    /\ chat_sessions = <<>>
    /\ requests = <<>>
    /\ LoopIdle
    /\ text \in Texts
    /\ max_tokens = 0
    /\ tokenizer \in Tokenizers
    /\ chunks = <<>>
    /\ chunk_pc = "idle"
    /\ context_window \in Windows
    /\ needs = FALSE
    /\ gate_pc = "call"
    /\ CleanIdle

\* main.py:93 a call of __does_need_chunking
CallGate ==
    /\ gate_pc = "call"
    /\ needs' = does_need_chunking(text, context_window, tokenizer)
    /\ gate_pc' = "done"
    /\ UNCHANGED <<chatVars, loopVars, text, max_tokens, tokenizer, chunks,
                   chunk_pc, context_window, cleanVars>>

GateNext == CallGate

SpecGate == GateInit /\ [][GateNext]_vars

(***************************************************************************)
(* The document-clean loop, src/main.py:62-105, with __llm_text_clean,     *)
(* src/main.py:153-170, and the /clean handler, src/app.py:55-89.          *)
(*                                                                         *)
(* httpx.post blocks, so the loop has one /clean request out at a time;    *)
(* it is suspended only while that request is out.  The locals of the      *)
(* previous iteration are dead when a document is loaded and start afresh. *)
(* The texts directory holds one document; any other name fails to load.   *)
(***************************************************************************)
\* the texts the /clean endpoint returns in 'reply'
CleanReplies == {<<"x">>, <<"y">>}

\* the exceptions TextLoader.load raises, main.py:83-89
LoadErrors == {"FileNotFoundError", "UnicodeDecodeError", "PermissionError"}

\* the lines the user types at the document prompt that end the loop
ExitLines == {"bye", "Bye"}

\* app.py:78 the opening of the cleaning prompt, up to the quoted text
CLEAN_PROMPT == "Can you please clean this text and reply only with the clean one?: "

\* app.py:74-82 the message list the /clean handler posts to the backend
clean_messages(user_message) ==
    <<[role |-> "user", content |-> <<CLEAN_PROMPT, "\"">> \o user_message \o <<"\"">>]>>

\* main.py:164-168 a /clean request on its way, with what the handler makes of it
CleanCall(message) ==
    [message |-> message, ollama |-> clean_messages(message),
     status |-> "awaiting", reply |-> <<>>]

\* a line printed by the loop: the format string and its argument
PrintLine(line, arg) == [line |-> line, arg |-> arg]

\* main.py:83-91 the line printed for an exception of the loader
LoadErrorLine(e) ==
    CASE e = "FileNotFoundError"  -> PrintLine("File not found.", <<>>)
      [] e = "UnicodeDecodeError" -> PrintLine("Encoding issue when reading the file.", <<>>)
      [] OTHER                    -> PrintLine("Other error: " \o e, <<>>)

Reverse(parts) == [i \in 1..Len(parts) |-> parts[Len(parts) + 1 - i]]

JoinCleanedReversed(replies) == Join(Reverse(replies))

\* main.py:97 llm_response = ' '.join(cleaned)
JoinCleaned(replies) == Join(replies)

ValueErrorLinePartial(replies) == PrintLine("Cleaned document: {}", Join(replies))

\* main.py:103-104 the ValueError raised inside the list comprehension of
\* main.py:95 discards the replies collected so far
ValueErrorLine(replies) == PrintLine("Invalid input, please try again.", <<>>)

CleanInit ==
    /\ chat_sessions = <<>>
    /\ requests = <<>>
    /\ LoopIdle
    /\ text = <<>>
    /\ max_tokens = 0
    /\ tokenizer \in Tokenizers
    /\ chunks = <<>>
    /\ chunk_pc = "idle"
    /\ GateIdle
    /\ document \in Texts
    /\ doc_pc = "input"
    /\ clean_calls = <<>>
    /\ cleaned = <<>>
    /\ doc_console = <<>>

\* main.py:72-75 the user types the exit word
DocExit ==
    /\ doc_pc = "input"
    /\ \E user_input \in ExitLines : Lower(user_input) = EXIT_WORD
    /\ doc_pc' = "returned"
    /\ doc_console' = <<>>
    /\ UNCHANGED <<chatVars, loopVars, text, max_tokens, tokenizer, chunks,
                   chunk_pc, gateVars, document, clean_calls, cleaned>>

\* main.py:72-91 the user names a document the loader cannot load
DocLoadFailed ==
    /\ doc_pc = "input"
    /\ \E e \in LoadErrors : doc_console' = <<LoadErrorLine(e)>>
    /\ text' = <<>>
    /\ max_tokens' = 0
    /\ chunks' = <<>>
    /\ chunk_pc' = "idle"
    /\ context_window' = 0
    /\ needs' = FALSE
    /\ gate_pc' = "idle"
    /\ clean_calls' = <<>>
    /\ cleaned' = <<>>
    /\ UNCHANGED <<chatVars, loopVars, tokenizer, document, doc_pc>>

\* main.py:72-100 the user names a document, it is loaded, gated and chunked,
\* and the first /clean request goes out
DocLoad ==
    /\ doc_pc = "input"
    /\ \E t \in {document} :
          LET need   == does_need_chunking(t, MISTRAL_CONTEXT_WINDOW, tokenizer)
              pieces == IF need THEN chunk_text(t, max_input_tokens, tokenizer)
                        ELSE <<t>>
          IN /\ text' = t
             /\ context_window' = MISTRAL_CONTEXT_WINDOW
             /\ needs' = need
             /\ gate_pc' = "done"
             /\ max_tokens' = IF need THEN max_input_tokens ELSE 0
             /\ chunks' = IF need THEN pieces ELSE <<>>
             /\ chunk_pc' = IF need THEN "done" ELSE "idle"
             /\ cleaned' = <<>>
             /\ IF pieces = <<>>
                THEN /\ clean_calls' = <<>>
                     /\ doc_console' = <<PrintLine("Cleaned document: {}", JoinCleaned(<<>>))>>
                     /\ doc_pc' = "input"
                ELSE /\ clean_calls' = <<CleanCall(pieces[1])>>
                     /\ doc_console' = <<>>
                     /\ doc_pc' = "waiting"
    /\ UNCHANGED <<chatVars, loopVars, tokenizer, document>>

\* app.py:89 and main.py:170, 95-102: the handler answers 200 with the reply
\* of the backend; the loop sends the next chunk or prints the result
CleanReply ==
    /\ doc_pc = "waiting"
    /\ \E r \in CleanReplies :
          LET k     == Len(clean_calls)
              calls == [clean_calls EXCEPT ![k].status = "ok", ![k].reply = r]
          IN IF needs
             THEN /\ cleaned' = Append(cleaned, r)
                  /\ IF Len(cleaned') < Len(chunks)
                     THEN /\ clean_calls' = Append(calls, CleanCall(chunks[Len(cleaned') + 1]))
                          /\ doc_console' = doc_console
                          /\ doc_pc' = "waiting"
                     ELSE /\ clean_calls' = calls
                          /\ doc_console' = <<PrintLine("Cleaned document: {}", JoinCleaned(cleaned'))>>
                          /\ doc_pc' = "input"
             ELSE /\ cleaned' = cleaned
                  /\ clean_calls' = calls
                  /\ doc_console' = <<PrintLine("Cleaned document: {}", r)>>
                  /\ doc_pc' = "input"
    /\ UNCHANGED <<chatVars, loopVars, text, max_tokens, tokenizer, chunks,
                   chunk_pc, gateVars, document>>

\* app.py:84-87 the backend call of the handler fails and the handler answers
\* 500 with a body that is no JSON; main.py:170 llm_response.json() raises a
\* ValueError, caught at main.py:103
CleanServerError ==
    /\ doc_pc = "waiting"
    /\ clean_calls' = [clean_calls EXCEPT ![Len(clean_calls)].status = "status_500"]
    /\ doc_console' = <<ValueErrorLine(cleaned)>>
    /\ doc_pc' = "input"
    /\ UNCHANGED <<chatVars, loopVars, text, max_tokens, tokenizer, chunks,
                   chunk_pc, gateVars, document, cleaned>>

\* main.py:164 httpx.post raises (connection refused, or DEFAULT_TIMEOUT passes):
\* httpx.ConnectError and httpx.ReadTimeout are no ValueError, so the exception
\* leaves clean_document and the menu loop of main.py:211-226
CleanTransport ==
    /\ doc_pc = "waiting"
    /\ clean_calls' = [clean_calls EXCEPT ![Len(clean_calls)].status = "transport"]
    /\ doc_pc' = "crashed"
    /\ UNCHANGED <<chatVars, loopVars, text, max_tokens, tokenizer, chunks,
                   chunk_pc, gateVars, document, cleaned, doc_console>>

CleanNext ==
    \/ DocExit
    \/ DocLoadFailed
    \/ DocLoad
    \/ CleanReply
    \/ CleanServerError
    \/ CleanTransport

SpecClean == CleanInit /\ [][CleanNext]_vars

(***************************************************************************)
(* Properties of the session histories.                                    *)
(***************************************************************************)
SystemTurn == Turn("system", SYSTEM_PROMPT_CHAT)

IsPrefix(p, h) == Len(p) <= Len(h) /\ SubSeq(h, 1, Len(p)) = p

CountRole(h, role) == Cardinality({i \in 1..Len(h) : h[i].role = role})

CountStatus(s, status) ==
    Cardinality({i \in 1..Len(requests[s]) : requests[s][i].status = status})

\* after the system turn: user at the even positions, assistant at the odd ones
Alternates(h) ==
    \A i \in 2..Len(h) : h[i].role = (IF i % 2 = 0 THEN "user" ELSE "assistant")

\* the requests of session s were made one after another, each arriving after
\* the previous one had its reply, and no backend call failed
Serial(s) ==
    \A i \in 1..Len(requests[s]) :
        /\ requests[s][i].status # "error"
        /\ ~requests[s][i].overlapped

\* a request arrived on session s in this step
Arrived(s) ==
    /\ s \in DOMAIN requests'
    /\ Len(requests'[s]) = Len(RequestsOf(s)) + 1

\* the handler frame of the request that arrived on session s in this step
Arrival(s) == requests'[s][Len(requests'[s])]

\* C1: when the requests of a session were made one after another and each got
\* its reply, a session that has served n requests holds 1 + 2n turns: the
\* system directive, then for k = 1..n the k-th user message followed by the
\* reply given to it.
C1_SessionMonotonicity ==
    \A s \in DOMAIN chat_sessions :
        (Serial(s) /\ s \notin Busy) =>
            LET h == chat_sessions[s]
                n == Len(requests[s])
            IN /\ Len(h) = 1 + 2 * n
               /\ h[1] = SystemTurn
               /\ \A k \in 1..n :
                     /\ h[2 * k] = Turn("user", requests[s][k].payload.message)
                     /\ h[2 * k + 1] = Turn("assistant", requests[s][k].reply)

\* C1 witness: a session has served two requests with different messages.
C1_Witness ==
    \E s \in DOMAIN chat_sessions :
        /\ Serial(s)
        /\ s \notin Busy
        /\ Len(requests[s]) = 2
        /\ requests[s][1].payload.message # requests[s][2].payload.message
        /\ Len(chat_sessions[s]) = 5

\* C2: every stored history is non-empty, starts with the system directive and
\* holds exactly one system turn.
C2_OneLeadingSystemTurn ==
    \A s \in DOMAIN chat_sessions :
        LET h == chat_sessions[s]
        IN /\ Len(h) >= 1
           /\ h[1] = SystemTurn
           /\ CountRole(h, "system") = 1

\* C2 witness: a session that was continued, with a failed and an answered
\* request and a request still waiting for the backend.
C2_Witness ==
    \E s \in DOMAIN chat_sessions :
        /\ CountStatus(s, "error") >= 1
        /\ CountStatus(s, "ok") >= 1
        /\ CountStatus(s, "awaiting") >= 1

\* C3 as claimed: in every reachable state the roles of every history alternate
\* user, assistant, ... after the system turn.
C3_RolesAlternate ==
    \A s \in DOMAIN chat_sessions : Alternates(chat_sessions[s])

\* C3 as amended: the roles of a history alternate after the system turn when
\* the requests of the session were made one after another and every backend
\* call succeeded; the history then ends with a user turn exactly while a
\* request is waiting for the backend.
C3_RolesAlternateWhenSerial ==
    \A s \in DOMAIN chat_sessions :
        Serial(s) =>
            LET h == chat_sessions[s]
            IN /\ Alternates(h)
               /\ Len(h) >= 2
               /\ (h[Len(h)].role = "user") <=> (s \in Busy)

\* C3 witness: a session with two answered requests and a third one waiting.
C3_Witness ==
    \E s \in DOMAIN chat_sessions :
        /\ Serial(s)
        /\ Len(chat_sessions[s]) = 6
        /\ s \in Busy

\* C4: a failed backend call changes no history; the user turn of the failed
\* request stays where it was appended, no assistant turn is stored for it, and
\* a later request on the session appends its user turn further on.
C4_FailureKeepsUserTurn ==
    /\ [](\A s \in DOMAIN requests :
            LET h == chat_sessions[s]
                rs == requests[s]
            IN /\ \A i \in 1..Len(rs) :
                     rs[i].status = "error" =>
                        /\ IsPrefix(rs[i].messages, h)
                        /\ rs[i].messages[Len(rs[i].messages)] =
                              Turn("user", rs[i].payload.message)
                        /\ \A j \in (i + 1)..Len(rs) :
                              /\ Len(rs[j].messages) > Len(rs[i].messages)
                              /\ IsPrefix(rs[i].messages, rs[j].messages)
               /\ CountRole(h, "assistant") = CountStatus(s, "ok")
               /\ CountRole(h, "user") = Len(rs))
    /\ [][\A s \in DOMAIN requests : \A i \in 1..Len(requests[s]) :
            (requests[s][i].status = "awaiting" /\ requests'[s][i].status = "error")
                => chat_sessions' = chat_sessions]_vars

\* C4 witness: a request failed and the same message was submitted again on
\* the session and answered.
C4_Witness ==
    \E s \in DOMAIN requests :
        /\ Len(requests[s]) = 2
        /\ requests[s][1].status = "error"
        /\ requests[s][2].status = "ok"
        /\ requests[s][2].payload.message = requests[s][1].payload.message
        /\ Len(chat_sessions[s]) = 4

\* C5: a request that carries the id of a stored session runs on that session:
\* no key is added, the history only gains the user turn, and the session_id
\* returned with the reply is the one supplied.
C5_KnownSessionReused ==
    /\ [][\A s \in DOMAIN requests' :
            (Arrived(s) /\ Arrival(s).payload.session_id \in DOMAIN chat_sessions)
                => LET sid == Arrival(s).payload.session_id
                   IN /\ s = sid
                      /\ Arrival(s).session_id = sid
                      /\ DOMAIN chat_sessions' = DOMAIN chat_sessions
                      /\ chat_sessions'[sid] =
                            Append(chat_sessions[sid],
                                   Turn("user", Arrival(s).payload.message))
                      /\ \A t \in DOMAIN chat_sessions \ {sid} :
                            chat_sessions'[t] = chat_sessions[t]]_vars
    /\ [](\A s \in DOMAIN requests : \A i \in 1..Len(requests[s]) :
            requests[s][i].status = "ok" =>
                /\ requests[s][i].returned = requests[s][i].session_id
                /\ requests[s][i].returned = s)

\* C5 witness: the id of a session was sent twice more and answered each time.
C5_Witness ==
    \E s \in DOMAIN requests :
        /\ Len(requests[s]) = 3
        /\ \A i \in 2..3 :
              /\ requests[s][i].payload.session_id = s
              /\ requests[s][i].status = "ok"
              /\ requests[s][i].returned = s

\* C6: a request whose session_id is absent, empty or not a key gets a new key
\* that differs from every existing one; the new history is the system
\* directive followed by the user turn, and no existing history changes.
C6_UnknownSessionCreated ==
    [][\A s \in DOMAIN requests' :
          (Arrived(s) /\ Arrival(s).payload.session_id \notin DOMAIN chat_sessions)
              => /\ s \notin DOMAIN chat_sessions
                 /\ Arrival(s).session_id = s
                 /\ Arrival(s).status = "awaiting"
                 /\ DOMAIN chat_sessions' = DOMAIN chat_sessions \cup {s}
                 /\ chat_sessions'[s] =
                       <<SystemTurn, Turn("user", Arrival(s).payload.message)>>
                 /\ \A t \in DOMAIN chat_sessions :
                       chat_sessions'[t] = chat_sessions[t]]_vars

\* C6 witness: a session was created for a request with an empty id and was
\* answered; then a request naming an id the server did not know created
\* another session.
C6_Witness ==
    \E s \in DOMAIN requests, t \in DOMAIN requests :
        /\ s # t
        /\ requests[s][1].payload.session_id \in {None, ""}
        /\ requests[s][1].status = "ok"
        /\ requests[t][1].payload.session_id \in UUIDs \ {t}
        /\ Len(chat_sessions[s]) = 3

(***************************************************************************)
(* Properties of the chat loop.                                            *)
(***************************************************************************)
\* the turns of the dialogue shown on the terminal: each typed message as a
\* user turn, each printed reply as an assistant turn
RECURSIVE Dialogue(_)
Dialogue(lines) ==
    IF lines = <<>> THEN <<>>
    ELSE LET l == lines[Len(lines)]
             before == Dialogue(SubSeq(lines, 1, Len(lines) - 1))
         IN IF l.who = "You" THEN Append(before, Turn("user", l.text))
            ELSE IF l.who = "LLM" THEN Append(before, Turn("assistant", l.text))
            ELSE before

\* every message typed so far was answered, except the one being waited on
AllAnswered ==
    \A i \in 1..Len(console) : console[i].who # "print"

\* C7 as claimed: while the loop waits for the answer to the k-th message, the
\* message list its request sent to the backend is the system directive, the
\* k-1 earlier messages each followed by its reply, and the k-th message.
C7_LoopKeepsContext ==
    (loop_pc = "waiting" /\ AllAnswered) =>
        requests[loop_req[1]][loop_req[2]].messages = <<SystemTurn>> \o Dialogue(console)

(***************************************************************************)
(* Properties of the chunker.                                              *)
(***************************************************************************)
\* the words of chunk c
WordsOf(c) == Split(c)

\* the chunk is one word that alone counts more than the budget
OneOverBudgetWord(c) ==
    /\ Len(WordsOf(c)) = 1
    /\ c = WordsOf(c)[1]
    /\ count_tokens(tokenizer, c) > max_tokens

\* C8 as claimed: the chunks joined with single spaces are the words of the
\* text in their order separated by single spaces.
C8_ChunkRoundTrip ==
    chunk_pc = "done" => Join(chunks) = Join(Split(text))

\* C9 as claimed: every chunk that is not exactly one over-budget word counts
\* at most max_tokens tokens; under the budget clean_document uses, its tokens
\* plus the output reserve then fit the context window.
C9_BudgetCompliance ==
    chunk_pc = "done" =>
        \A i \in 1..Len(chunks) :
            ~OneOverBudgetWord(chunks[i]) =>
                /\ count_tokens(tokenizer, chunks[i]) <= max_tokens
                /\ max_tokens = max_input_tokens =>
                      count_tokens(tokenizer, chunks[i]) + expected_output_tokens
                          <= max_context_tokens

\* C10: a chunk ends exactly where the next word would push the candidate over
\* the budget: every chunk but the last, joined with the first word of the
\* next chunk, counts more than max_tokens, while no chunk has a first word
\* before which the candidate was already over the budget; with the word
\* count as token counter and max_tokens = 2, "a b c d e" gives
\* "a b", "c d", "e".
C10_GreedyBoundaries ==
    chunk_pc = "done" =>
        /\ \A i \in 1..(Len(chunks) - 1) :
              count_tokens(tokenizer, Join(<<chunks[i], WordsOf(chunks[i + 1])[1]>>))
                  > max_tokens
        /\ \A i \in 1..Len(chunks) :
              \A k \in (IF i = 1 THEN 1 ELSE 2)..Len(WordsOf(chunks[i])) :
                  count_tokens(tokenizer, Join(SubSeq(WordsOf(chunks[i]), 1, k)))
                      <= max_tokens
        /\ (text = ScenarioText /\ tokenizer = "words" /\ max_tokens = 2) =>
              chunks = << <<"a", " ", "b">>, <<"c", " ", "d">>, <<"e">> >>

\* C10 witness: the scenario has been chunked into its three chunks.
C10_Witness ==
    /\ chunk_pc = "done"
    /\ text = ScenarioText
    /\ tokenizer = "words"
    /\ max_tokens = 2
    /\ Len(chunks) = 3

(***************************************************************************)
(* C11  Gate boundary: for every text and context window, the gate answers *)
(* true exactly when the token count plus the floor of 0.8 times the token *)
(* count is greater than the window, and so answers false when the sum     *)
(* equals the window.                                                      *)
(***************************************************************************)
\* k is the floor of 0.8 * n, stated without division
IsFloorOfFourFifths(k, n) == 5 * k <= 4 * n /\ 4 * n < 5 * k + 5

\* the integers from three quarters of n, less one, up to n: the floor of
\* 0.8 * n is among them
AroundFourFifths(n) == ((3 * n) \div 4 - 1)..n

C11_GateBoundary ==
    gate_pc = "done" =>
        LET n == count_tokens(tokenizer, text)
        IN /\ \E k \in AroundFourFifths(n) : IsFloorOfFourFifths(k, n)
           /\ \A k \in AroundFourFifths(n) :
                 IsFloorOfFourFifths(k, n) =>
                    /\ needs = (n + k > context_window)
                    /\ (n + k = context_window => needs = FALSE)

\* the gate was asked about a non-empty text whose sum is exactly the window
C11_Witness ==
    /\ gate_pc = "done"
    /\ count_tokens(tokenizer, text) >= 5
    /\ count_tokens(tokenizer, text) + expected_output(count_tokens(tokenizer, text))
          = context_window
    /\ needs = FALSE

(***************************************************************************)
(* Properties of the document-clean loop.                                  *)
(***************************************************************************)
\* the texts clean_document has to send for the loaded document
Pieces == IF needs THEN chunks ELSE <<text>>

\* the replies received for the document at hand, in the order of the requests
RepliesReceived == [i \in 1..Len(clean_calls) |-> clean_calls[i].reply]

\* the loop has printed a cleaned document since the last prompt
PrintedCleaned ==
    \E i \in 1..Len(doc_console) : doc_console[i].line = "Cleaned document: {}"

FailedCall(k) == clean_calls[k].status \in {"status_500", "transport"}

(***************************************************************************)
(* C12  Order preservation in clean_document: when the gate asks for       *)
(* chunking the /clean endpoint is called once per chunk in index order,   *)
(* a chunk is sent only after the reply for the one before it is in, and   *)
(* the printed result is the replies joined with single spaces in chunk    *)
(* order; otherwise the endpoint is called once on the whole text.         *)
(***************************************************************************)
C12_OrderPreservation ==
    gate_pc = "done" /\ doc_pc # "idle" =>
        /\ needs = does_need_chunking(text, MISTRAL_CONTEXT_WINDOW, tokenizer)
        /\ needs => chunks = chunk_text(text, max_input_tokens, tokenizer)
        /\ Len(clean_calls) <= Len(Pieces)
        /\ \A i \in 1..Len(clean_calls) : clean_calls[i].message = Pieces[i]
        /\ \A i \in 1..(Len(clean_calls) - 1) : clean_calls[i].status = "ok"
        /\ PrintedCleaned =>
              /\ Len(clean_calls) = Len(Pieces)
              /\ \A i \in 1..Len(clean_calls) : clean_calls[i].status = "ok"
              /\ doc_console = <<PrintLine("Cleaned document: {}",
                                  IF needs THEN Join(RepliesReceived)
                                  ELSE clean_calls[1].reply)>>

\* a document of several chunks was cleaned and two of its replies differ
C12_Witness ==
    /\ doc_pc = "input"
    /\ needs
    /\ Len(chunks) >= 2
    /\ PrintedCleaned
    /\ clean_calls[1].reply # clean_calls[2].reply

(***************************************************************************)
(* C13  When the /clean call for a chunk fails, the document operation     *)
(* fails as a whole: no cleaned document is printed, no chunk after the    *)
(* failed one is sent and the failed call is not sent again.               *)
(***************************************************************************)
C13_ChunkFailureFailsDocument ==
    \A k \in 1..Len(clean_calls) :
        FailedCall(k) =>
            /\ k = Len(clean_calls)
            /\ Len(cleaned) = (IF needs THEN k - 1 ELSE 0)
            /\ ~PrintedCleaned
            /\ doc_pc \in {"input", "returned", "crashed"}

\* the second of three chunks failed after the first was cleaned, and the
\* loop is back at its prompt
C13_Witness ==
    /\ needs
    /\ Len(chunks) >= 3
    /\ Len(clean_calls) = 2
    /\ clean_calls[2].status = "status_500"
    /\ Len(cleaned) = 1
    /\ doc_pc = "input"

(***************************************************************************)
(* C15  as claimed: every failure is reported in its own category: a       *)
(* failure of the backend or the transport, a document that is not found   *)
(* and a document that cannot be decoded give three different outcomes,    *)
(* none is swallowed and none is reported as invalid input.                *)
(***************************************************************************)
OtherCategoryLines ==
    {"Invalid input, please try again.", LoadErrorLine("FileNotFoundError").line,
     LoadErrorLine("UnicodeDecodeError").line}

C15_FailureCategories ==
    /\ LoadErrorLine("FileNotFoundError") # LoadErrorLine("UnicodeDecodeError")
    /\ \A k \in 1..Len(clean_calls) :
          FailedCall(k) /\ doc_pc # "waiting" =>
             \/ doc_pc = "crashed"
             \/ /\ doc_console # <<>>
                /\ \A i \in 1..Len(doc_console) :
                      doc_console[i].line \notin OtherCategoryLines

(***************************************************************************)
(* Further properties of the session histories.                            *)
(***************************************************************************)
\* the history a session has when its requests rs are served one at a time:
\* the system directive, then per request its user turn and, if the backend
\* answered, the reply
RECURSIVE OwnHistory(_)
OwnHistory(rs) ==
    IF rs = <<>> THEN <<SystemTurn>>
    ELSE LET r == rs[Len(rs)]
             before == Append(OwnHistory(SubSeq(rs, 1, Len(rs) - 1)),
                              Turn("user", r.payload.message))
         IN IF r.status = "ok" THEN Append(before, Turn("assistant", r.reply))
            ELSE before

\* no request of session s arrived while another request of s was in flight
NoOverlap(s) == \A i \in 1..Len(requests[s]) : ~requests[s][i].overlapped

(***************************************************************************)
(* C14  Cross-session isolation: whatever requests of other sessions are   *)
(* in flight, a step changes only the history of the session whose request *)
(* acts; a session whose own requests do not overlap holds exactly the     *)
(* history its own requests give when run alone; every session was created *)
(* by one request, under a key of its own, with one system directive.      *)
(***************************************************************************)
C14_CrossSessionIsolation ==
    /\ [](\A s \in DOMAIN chat_sessions :
            /\ NoOverlap(s) => chat_sessions[s] = OwnHistory(requests[s])
            /\ CountRole(chat_sessions[s], "system") = 1
            /\ \A i \in 2..Len(requests[s]) : requests[s][i].payload.session_id = s)
    /\ [][\A t \in DOMAIN chat_sessions :
            requests'[t] = requests[t] => chat_sessions'[t] = chat_sessions[t]]_vars

\* the request that created one session is in flight while another session,
\* answered once, has its second request in flight
C14_Witness ==
    \E s \in DOMAIN requests, t \in DOMAIN requests :
        /\ s # t
        /\ requests[s][1].status = "awaiting"
        /\ Len(requests[t]) = 2
        /\ requests[t][2].status = "awaiting"
        /\ NoOverlap(t)
        /\ Len(chat_sessions[s]) = 2
        /\ Len(chat_sessions[t]) = 4

(***************************************************************************)
(* C16  The message list a chat request delivers to the backend is the     *)
(* whole history of its session at that moment: the system directive       *)
(* first, every turn stored before in order, and last the user turn of     *)
(* this request.                                                           *)
(***************************************************************************)
C16_WholeHistorySent ==
    [][\A s \in DOMAIN requests' :
          Arrived(s) =>
             LET stored == IF s \in DOMAIN chat_sessions THEN chat_sessions[s]
                           ELSE <<SystemTurn>>
                 sent   == Arrival(s).messages
             IN /\ sent = Append(stored, Turn("user", Arrival(s).payload.message))
                /\ sent = chat_sessions'[s]
                /\ sent[1] = SystemTurn]_vars

\* a request on a session that already held a reply has delivered five turns
C16_Witness ==
    \E s \in DOMAIN requests :
        /\ Len(requests[s]) = 3
        /\ requests[s][3].status = "awaiting"
        /\ Len(requests[s][3].messages) = 5
        /\ requests[s][3].messages[3].role = "assistant"

(***************************************************************************)
(* C17  History is append-only: in every step the history of every session *)
(* is a prefix of its history after the step, and every key of the         *)
(* session map stays a key.                                                *)
(***************************************************************************)
C17_AppendOnly ==
    [][\A s \in DOMAIN chat_sessions :
          /\ s \in DOMAIN chat_sessions'
          /\ IsPrefix(chat_sessions[s], chat_sessions'[s])]_vars

\* a session holds a failed request and a later answered one beside another
\* session
C17_Witness ==
    \E s \in DOMAIN requests, t \in DOMAIN requests :
        /\ s # t
        /\ Len(requests[s]) = 2
        /\ requests[s][1].status = "error"
        /\ requests[s][2].status = "ok"
        /\ Len(chat_sessions[s]) = 4
        /\ Len(chat_sessions[t]) >= 2

(***************************************************************************)
(* C18  Same-session race: a request that arrives on a session while the   *)
(* request before it is still at the backend is served at once, so the two *)
(* user turns are stored side by side, the context sent for the second     *)
(* holds the unanswered first, and when both are answered the history ends *)
(* user, user, assistant, assistant: the reply to the first is not stored  *)
(* directly after its user turn.                                           *)
(***************************************************************************)
C18_SameSessionRace ==
    \A s \in DOMAIN requests : \A j \in 2..Len(requests[s]) :
        LET rs == requests[s]
            h  == chat_sessions[s]
            p  == Len(rs[j - 1].messages)
        IN (rs[j].overlapped /\ ~rs[j - 1].overlapped) =>
              /\ rs[j].messages =
                    Append(rs[j - 1].messages, Turn("user", rs[j].payload.message))
              /\ h[p] = Turn("user", rs[j - 1].payload.message)
              /\ h[p + 1] = Turn("user", rs[j].payload.message)
              /\ (j = Len(rs) /\ rs[j - 1].status = "ok" /\ rs[j].status = "ok") =>
                    /\ Len(h) = p + 3
                    /\ h[p + 2] = Turn("assistant", rs[j - 1].reply)
                    /\ h[p + 3] = Turn("assistant", rs[j].reply)

\* on a session that already existed two requests overlapped and both were
\* answered: system, user, assistant, user, user, assistant, assistant
C18_Witness ==
    \E s \in DOMAIN requests :
        /\ Len(requests[s]) = 3
        /\ ~requests[s][2].overlapped
        /\ requests[s][3].overlapped
        /\ \A i \in 1..3 : requests[s][i].status = "ok"
        /\ [i \in 1..Len(chat_sessions[s]) |-> chat_sessions[s][i].role] =
              <<"system", "user", "assistant", "user", "user", "assistant", "assistant">>

(***************************************************************************)
(* Further properties of the chunker.                                      *)
(***************************************************************************)
\* the words of all chunks, in the order of the chunks
RECURSIVE WordsOfAll(_)
WordsOfAll(cs) ==
    IF cs = <<>> THEN <<>>
    ELSE WordsOfAll(SubSeq(cs, 1, Len(cs) - 1)) \o WordsOf(cs[Len(cs)])

\* on the runs of consecutive words of the text, the token count does not go
\* down when the next word is appended
NeverDecreases ==
    LET words == Split(text)
    IN \A a \in 1..Len(words) : \A b \in a..(Len(words) - 1) :
          count_tokens(tokenizer, Join(SubSeq(words, a, b)))
              <= count_tokens(tokenizer, Join(SubSeq(words, a, b + 1)))

(***************************************************************************)
(* C19  The chunker never splits inside a word: the words of the chunks,   *)
(* taken in order, are the words of the text, each whole and once, and a   *)
(* chunk is its words separated by single spaces; under a token counter    *)
(* that never decreases when a word is appended, a word that alone counts  *)
(* more than max_tokens is the only word of its chunk.                     *)
(***************************************************************************)
C19_WordsKeptWhole ==
    chunk_pc = "done" =>
        /\ WordsOfAll(chunks) = Split(text)
        /\ \A i \in 1..Len(chunks) : chunks[i] = Join(WordsOf(chunks[i]))
        /\ NeverDecreases =>
              \A i \in 1..Len(chunks) : \A k \in 1..Len(WordsOf(chunks[i])) :
                  count_tokens(tokenizer, WordsOf(chunks[i])[k]) > max_tokens =>
                      /\ Len(WordsOf(chunks[i])) = 1
                      /\ chunks[i] = WordsOf(chunks[i])[1]

\* a word over the budget stands alone in its chunk between a word that fits
\* and the end of the text
C19_Witness ==
    /\ chunk_pc = "done"
    /\ NeverDecreases
    /\ Len(Split(text)) = 2
    /\ Len(chunks) = 2
    /\ count_tokens(tokenizer, chunks[1]) <= max_tokens
    /\ chunks[1] # <<>>
    /\ OneOverBudgetWord(chunks[2])

(***************************************************************************)
(* C20  as claimed: the chunker returns the empty list exactly when the    *)
(* text has no words, and every chunk it returns holds at least one word.  *)
(***************************************************************************)
C20_NoEmptyChunk ==
    chunk_pc = "done" =>
        /\ (chunks = <<>>) = (Split(text) = <<>>)
        /\ \A i \in 1..Len(chunks) : Len(WordsOf(chunks[i])) >= 1
====
